---- MODULE Spec2Model ----
(***************************************************************************)
(* The daily content pipeline of linkedin-bot: daily_knowledge_bot.py (the *)
(* pipeline with the used-article ledger) and daily_knowledge_bot_final.py *)
(* (the earlier variant without a ledger), as one state machine.  One      *)
(* behaviour is a sequence of runs of one of the two scripts, executed one *)
(* at a time over the same working directory and the same platform.        *)
(*                                                                         *)
(* Text is modelled as a sequence of tokens: "http" is the scheme prefix   *)
(* that startswith("http") looks for, " " is a whitespace character, and   *)
(* a host token is the substring that `domain in url` looks for.           *)
(*                                                                         *)
(* A command-line flag that a single step reads (--company, --human,       *)
(* --plug, --no-logo, --linkedin) is an input of that step; the flags read *)
(* more than once (--post-to-linkedin, --add-image) are state.  The topic  *)
(* is selected and handed to the backends, whose answers are inputs; it is *)
(* not kept.  Failures of the environment are inputs too: a request that   *)
(* raises, a write of the ledger file or of the image file that raises,    *)
(* and the death of the process while the ledger file is being written.    *)
(*                                                                         *)
(* Spec follows whole runs and keeps of a text only how it was made.  Four *)
(* steps are followed in full on specifications of their own, over the     *)
(* same variables: RotatorSpec keeps the topic list, the day and the       *)
(* selected topics of a deployment started once a day through a month,     *)
(* ComposerSpec keeps the fact, the backend's content and the post text as *)
(* token sequences, StandardizerSpec does the same for the summary and the *)
(* fact of daily_knowledge_bot_final.py, and WatermarkSpec keeps the sizes *)
(* and the position that add_logo_to_image computes.  In Spec the          *)
(* variables of these steps rest, but for `error`, which keeps the         *)
(* configuration or rotation error that ended a run.                       *)
(***************************************************************************)
EXTENDS Integers, Sequences, FiniteSets, TLC

\* ------------------------------------------------------------------------
\* The environment: what the external capabilities can answer.
\* ------------------------------------------------------------------------

ArticleA == <<"http", "s://", "news.example", "/a">>
ArticleB == <<"http", "s://", "news.example", "/b">>
PaddedA  == <<" ", "http", "s://", "news.example", "/a", " ">>
WikiPage == <<"http", "s://", "en.", "wikipedia.org", "/wiki/a">>
ShortVideo == <<"http", "s://", "youtu.be", "/v">>
Prose    == <<"http", "s://", "news.example", "/a", " ", "is", " ", "good">>
Refusal  == <<"none", " ", "found">>

\* Stands for a request that raised (timeout, connection error, HTTP error).
Raised == <<"raised">>

\* The message contents the search backend can answer with.
SearchReplies == {ArticleA, ArticleB, PaddedA, WikiPage, ShortVideo, Prose, Refusal}

\* The summaries the summarization backend can answer with.
Facts == {"f1", "f2"}

\* What the user can type at the confirmation prompt.
Answers == {"y", "Y", "n", "yes", ""}

\* HTTP statuses the platform can answer a request with.
Statuses == {200, 201, 403}

\* A request that raised instead of answering with a status.
NoAnswer == -1

None == <<>>
NoFact == "nofact"
NoTopic == ""
NoText == [kind |-> "none"]
NoFile == [exists |-> FALSE]

\* A post file an earlier run left behind.  No step of either script reads
\* a post file back, so of an earlier run's post file only its existence is
\* kept.
EarlierPost == [exists |-> TRUE, text |-> [kind |-> "earlier"]]
LeftBehind(posts) ==
    [human \in BOOLEAN |-> IF posts[human].exists THEN EarlierPost ELSE NoFile]

\* ------------------------------------------------------------------------
\* Pure helpers.
\* ------------------------------------------------------------------------

SetMin(S) == CHOOSE m \in S : \A n \in S : m <= n
SetMax(S) == CHOOSE m \in S : \A n \in S : m >= n

\* The line break.
NL == "\n"

\* A whitespace character: what \s matches and str.split() splits on.
IsSpace(t) == t \in {" ", NL}

\* str.strip(): the text without its leading and trailing whitespace.
strip(s) ==
    LET inked == {i \in 1..Len(s) : ~IsSpace(s[i])}
    IN  IF inked = {} THEN <<>> ELSE SubSeq(s, SetMin(inked), SetMax(inked))

\* str.rstrip()
rstrip(s) ==
    LET inked == {i \in 1..Len(s) : ~IsSpace(s[i])}
    IN  IF inked = {} THEN <<>> ELSE SubSeq(s, 1, SetMax(inked))

\* str.startswith("http")
startswith_http(s) == Len(s) > 0 /\ s[1] = "http"

\* `sub in s` for a one-token substring.
contains(s, sub) == \E i \in 1..Len(s) : s[i] = sub

\* str.lower() on the answers of the prompt.
lower(s) == IF s = "Y" THEN "y" ELSE s

\* The low-value domains get_article_url refuses.
DenyList == {"wikipedia.org", "youtube.com", "youtu.be"}

\* A loop bound off by one.
max_attempts_plus_one == 3 + 1

max_attempts == 3

\* A finder that forgets the exclusion set.
AcceptableIgnoringUsed(url, used) ==
    /\ startswith_http(url)
    /\ ~contains(url, " ")
    /\ ~(\E domain \in DenyList : contains(url, domain))

\* A finder without the denylist.
AcceptableOffDenyList(url, used) ==
    /\ startswith_http(url)
    /\ ~contains(url, " ")
    /\ url \notin used

\* The acceptance test of get_article_url on a stripped candidate.
Acceptable(url, used) ==
    /\ startswith_http(url)
    /\ ~contains(url, " ")
    /\ url \notin used
    /\ ~(\E domain \in DenyList : contains(url, domain))

\* ------------------------------------------------------------------------
\* The ledger file used_articles.json.  kind is "absent" (no file), "json"
\* (a complete document whose used_urls list holds urls) or "partial" (an
\* empty or partly written file, which json.load refuses).
\* ------------------------------------------------------------------------

AbsentLedger == [kind |-> "absent", urls |-> {}]
PartialLedger == [kind |-> "partial", urls |-> {}]
JsonLedger(urls) == [kind |-> "json", urls |-> urls]

\* DailyKnowledgeService._load_used_articles
_load_used_articles(file) ==
    IF file.kind = "absent" THEN {}
    ELSE IF file.kind = "json" THEN file.urls
    ELSE {}

VARIABLES
    script,              \* which script this deployment runs: "bot" or "final"
    used_articles_file,  \* the ledger file
    fact_file,           \* today's facts/daily_fact_<date>.txt
    post_files,          \* today's linkedin_posts/linkedin_post_<date>[_human].md, by human_like
    published,           \* source URLs of the posts the platform accepted (201)
    pc,                  \* where the running process is; "idle", "exited", "crashed" when none runs
    exit_status,         \* the process's exit status, -1 while it has none
    post_to_linkedin,    \* args.post_to_linkedin
    used_urls,           \* service.used_urls
    attempts,            \* get_article_url's loop counter
    reply,               \* the search backend's last answer, Raised when the request raised
    article_url,         \* the URL the finder returned, None for none
    fact,                \* the summary
    post_text,           \* the composed post
    image_path,          \* the image file of the run: "none", "raw" (as generated),
                         \* "marked" (logo overlaid) or "damaged" (a save cut short)
    add_image,           \* args.add_image
    user_input,          \* user_input.lower() of the answer typed at the prompt, "unasked" before it
    identity,            \* "person" or "company" once publishing starts, else "none"
    media,               \* shareMediaCategory of the post body: "NONE" or "IMAGE"
    post_status,         \* the platform's answer to the post request: 0 none yet, -1 the request raised
    register_status,     \* the platform's answer to the registration of the upload, likewise
    upload_status,       \* the platform's answer to the upload of the binary, likewise
    calls,               \* how often this run invoked each external capability / the ledger record
    wrote,               \* the artifacts this run wrote
    ledger_at_start,     \* the ledger file as this run found it
    topics_file,         \* topics.txt: "missing", or what its lines hold
    self_topics,         \* service.topics
    day_of_month,        \* datetime.now().day
    topic,               \* the topic get_daily_topic returned, NoTopic before
    error,               \* the exception that ended get_and_save_daily_content, "none" if none
    chosen,              \* the topics selected so far, by day of the month
    args_human,          \* args.human
    args_plug,           \* args.plug
    generated,           \* the message content the composer's backend answered with, Raised when the request failed
    base_image,          \* base_image.size in add_logo_to_image, <<width, height>>
    logo,                \* logo.size as opened
    resized,             \* logo.size after logo.resize, None before
    position             \* where the logo is pasted, None before

vars == <<script, used_articles_file, fact_file, post_files, published, pc,
          exit_status, post_to_linkedin, used_urls, attempts, reply,
          article_url, fact, post_text, image_path, add_image, user_input,
          identity, media, post_status, register_status, upload_status,
          calls, wrote, ledger_at_start,
          topics_file, self_topics, day_of_month, topic, error, chosen,
          args_human, args_plug, generated,
          base_image, logo, resized, position>>

persistent == <<script, used_articles_file, fact_file, post_files, published>>
files == <<used_articles_file, fact_file, post_files>>
artifacts == <<fact_file, post_files>>
finder == <<attempts, reply, article_url>>
content == <<fact, post_text, image_path, add_image>>
publishing == <<user_input, identity, media, post_status, register_status,
                upload_status>>
rotator == <<topics_file, self_topics, day_of_month, topic, error, chosen>>
composer == <<args_human, args_plug, generated>>
watermark == <<base_image, logo, resized, position>>

NoCalls == [search |-> 0, summarize |-> 0, compose |-> 0, image |-> 0,
            overlay |-> 0, register |-> 0, upload |-> 0, publish |-> 0,
            record |-> 0]

Called(what) == calls' = [calls EXCEPT ![what] = @ + 1]

Running == pc \notin {"idle", "exited", "crashed"}

\* The process ends with `status`.
Exit(status) == pc' = "exited" /\ exit_status' = status

\* What the variables of topic rotation hold while no rotation is followed.
RotatorAtRest ==
    /\ topics_file = "missing"
    /\ self_topics = <<>>
    /\ day_of_month = 1
    /\ topic = NoTopic
    /\ error = "none"
    /\ chosen = <<>>

\* What the variables of the composer's call hold before the call.
ComposerAtRest ==
    /\ args_human = FALSE
    /\ args_plug = FALSE
    /\ generated = None

\* What the variables of the logo's geometry hold while no logo is placed.
WatermarkAtRest ==
    /\ base_image = None
    /\ logo = None
    /\ resized = None
    /\ position = None

\* An empty working directory and no process.
PipelineAtRest ==
    /\ used_articles_file = AbsentLedger
    /\ fact_file = NoFile
    /\ post_files = [human \in BOOLEAN |-> NoFile]
    /\ published = {}
    /\ pc = "idle"
    /\ exit_status = -1
    /\ post_to_linkedin = FALSE
    /\ used_urls = {}
    /\ attempts = 0
    /\ reply = None
    /\ article_url = None
    /\ fact = NoFact
    /\ post_text = NoText
    /\ image_path = "none"
    /\ add_image = FALSE
    /\ user_input = "unasked"
    /\ identity = "none"
    /\ media = "NONE"
    /\ post_status = 0
    /\ register_status = 0
    /\ upload_status = 0
    /\ calls = NoCalls
    /\ wrote = {}
    /\ ledger_at_start = AbsentLedger

Init ==
    /\ script \in {"bot", "final"}
    /\ PipelineAtRest
    /\ RotatorAtRest
    /\ ComposerAtRest
    /\ WatermarkAtRest

\* A fresh process: nothing of the previous run's memory survives.
FreshProcess ==
    /\ attempts' = 0
    /\ reply' = None
    /\ article_url' = None
    /\ fact' = NoFact
    /\ post_text' = NoText
    /\ image_path' = "none"
    /\ add_image' = FALSE
    /\ user_input' = "unasked"
    /\ identity' = "none"
    /\ media' = "NONE"
    /\ post_status' = 0
    /\ register_status' = 0
    /\ upload_status' = 0
    /\ calls' = NoCalls
    /\ wrote' = {}
    /\ ledger_at_start' = used_articles_file

\* ------------------------------------------------------------------------
\* daily_knowledge_bot.py
\* ------------------------------------------------------------------------

\* The lines of topics.txt: absent, two topics, or no non-blank line.
TopicsFiles == {"missing", "listed", "blank"}
ListedTopics == <<"AI", "History">>
DefaultTopics == <<"Artificial Intelligence">>
Topics == {"AI", "History", "Artificial Intelligence"}
Days == 1..31

\* A topics file whose absence leaves the list empty.
load_topics_without_default(topics_txt) ==
    IF topics_txt = "listed" THEN ListedTopics ELSE <<>>

\* DailyKnowledgeService.load_topics_from_file
load_topics_from_file(topics_txt) ==
    IF topics_txt = "missing" THEN DefaultTopics
    ELSE IF topics_txt = "listed" THEN ListedTopics
    ELSE <<>>

\* An index taken from the day itself.
topic_of_day_from_day(topics, day) == topics[(day % Len(topics)) + 1]

\* topics[(day_of_month - 1) % len(topics)], on a non-empty list
topic_of_day(topics, day) == topics[((day - 1) % Len(topics)) + 1]

\* Credentials a run can find missing or left as a placeholder.
ConfigStates == {"ok", "no_perplexity_key", "no_google_key", "no_linkedin_token"}

\* The exception the clients raise on a missing or placeholder credential.
configuration_error == "ConfigurationError"

\* What `% len(self.topics)` raises on an empty list.
empty_topics_error == "ZeroDivisionError"

\* main, to the construction of the service: the arguments are parsed, the
\* clients are constructed (a ConfigurationError exits with 1) and the
\* service loads the ledger.  `error` keeps the configuration or rotation
\* error that ended the process, if one did.
BotStart ==
    /\ script = "bot"
    /\ UNCHANGED <<topics_file, self_topics, day_of_month, topic, chosen, composer,
                   watermark>>
    /\ ~Running
    /\ FreshProcess
    /\ \E ptl \in BOOLEAN, config \in ConfigStates :
        /\ post_to_linkedin' = ptl
        /\ IF \/ config \in {"no_perplexity_key", "no_google_key"}
              \/ (config = "no_linkedin_token" /\ ptl)
           THEN /\ error' = configuration_error
                /\ Exit(1)
                /\ used_urls' = {}
           ELSE /\ error' = "none"
                /\ pc' = "select_topic"
                /\ exit_status' = -1
                /\ used_urls' = _load_used_articles(used_articles_file)
    /\ post_files' = LeftBehind(post_files)
    /\ UNCHANGED <<script, used_articles_file, fact_file, published>>

\* A handler that logs the failure and ends the process normally.
content_failed_quietly == Exit(0)

\* A handler that sends the pipeline back to the summarizer.
content_failed_retrying == pc' = "summarize" /\ exit_status' = exit_status

\* main's handler around get_and_save_daily_content: any exception is
\* logged and the process exits with status 1.
content_failed == Exit(1)

\* get_daily_topic, called first by get_and_save_daily_content.  An empty
\* topic list makes `% len(self.topics)` raise ZeroDivisionError, which
\* main catches with the other failures of content generation.
get_daily_topic ==
    /\ script = "bot"
    /\ UNCHANGED <<topics_file, self_topics, day_of_month, topic, chosen, composer,
                   watermark>>
    /\ pc = "select_topic"
    /\ \E topics_txt \in TopicsFiles, day \in Days :
        LET topics == load_topics_from_file(topics_txt)
        IN  IF Len(topics) = 0
            THEN /\ error' = empty_topics_error
                 /\ content_failed
            ELSE /\ topic_of_day(topics, day) \in Topics
                 /\ error' = error
                 /\ pc' = "find"
                 /\ exit_status' = exit_status
    /\ UNCHANGED <<persistent, post_to_linkedin, used_urls, finder, content,
                   publishing, calls, wrote, ledger_at_start>>

\* One pass through the loop of PerplexityClient.get_article_url: one
\* request to the search backend; an acceptable candidate is returned at
\* once, anything else (a raised request included) counts an attempt, and
\* the loop's exit returns None.
get_article_url ==
    /\ script = "bot"
    /\ UNCHANGED <<rotator, composer, watermark>>
    /\ pc = "find"
    /\ attempts < max_attempts
    /\ Called("search")
    /\ \E answer \in SearchReplies \cup {Raised} :
        /\ reply' = answer
        /\ IF answer # Raised /\ Acceptable(strip(answer), used_urls)
           THEN /\ article_url' = strip(answer)
                /\ attempts' = attempts
                /\ pc' = "found"
           ELSE /\ article_url' = None
                /\ attempts' = attempts + 1
                /\ pc' = IF attempts + 1 < max_attempts THEN "find" ELSE "found"
    /\ UNCHANGED <<persistent, exit_status, post_to_linkedin, used_urls,
                   fact, post_text, image_path, add_image, publishing, wrote,
                   ledger_at_start>>

\* A result that is passed on unchecked.
not_found_unchecked(url) == FALSE

\* `not article_url`
not_found(url) == url = None

\* A pipeline that composes from the article without summarizing it.
check_article_then_compose ==
    /\ script = "bot"
    /\ UNCHANGED <<rotator, composer, watermark>>
    /\ pc = "found"
    /\ IF not_found(article_url)
       THEN content_failed
       ELSE pc' = "compose" /\ exit_status' = exit_status
    /\ attempts' = 0
    /\ reply' = None
    /\ UNCHANGED <<persistent, post_to_linkedin, used_urls, article_url, content,
                   publishing, calls, wrote, ledger_at_start>>

\* get_and_save_daily_content on the finder's result: none raises
\* ValueError, which main turns into exit status 1.
check_article ==
    /\ script = "bot"
    /\ UNCHANGED <<rotator, composer, watermark>>
    /\ pc = "found"
    /\ IF not_found(article_url)
       THEN content_failed
       ELSE pc' = "summarize" /\ exit_status' = exit_status
    /\ attempts' = 0
    /\ reply' = None
    /\ UNCHANGED <<persistent, post_to_linkedin, used_urls, article_url, content,
                   publishing, calls, wrote, ledger_at_start>>

\* summarize_article and the write of the fact file.  A failed request
\* raises out of get_and_save_daily_content; main exits with 1.
summarize_article ==
    /\ script = "bot"
    /\ UNCHANGED <<rotator, composer, watermark>>
    /\ pc = "summarize"
    /\ Called("summarize")
    /\ \/ /\ content_failed
          /\ UNCHANGED <<fact, fact_file, wrote>>
       \/ \E summary \in Facts :
            /\ fact' = summary
            /\ fact_file' = [exists |-> TRUE, text |-> summary]
            /\ wrote' = wrote \cup {"fact"}
            /\ pc' = "compose"
            /\ exit_status' = exit_status
    /\ UNCHANGED <<script, used_articles_file, post_files, published,
                   post_to_linkedin, used_urls, finder, post_text,
                   image_path, add_image, publishing, ledger_at_start>>

\* What generate_linkedin_post_text returns: the backend's text with the
\* citation (kind "generated"), or the minimal composition when the request
\* failed (kind "fallback").
ComposedPost(kind, human_like, f, url) ==
    [kind |-> kind, human |-> human_like, fact |-> f, source |-> url,
     plug |-> FALSE]

\* The promotional line appended when args.plug is set.
WithPlug(text, plug) == [text EXCEPT !.plug = plug]

\* A composer whose text is returned but never written to the post file.
compose_post_unsaved ==
    /\ script = "bot"
    /\ UNCHANGED <<rotator, composer, watermark>>
    /\ pc = "compose"
    /\ Called("compose")
    /\ \E human_like \in BOOLEAN, plug \in BOOLEAN, kind \in {"generated", "fallback"} :
        post_text' = WithPlug(ComposedPost(kind, human_like, fact, article_url), plug)
    /\ pc' = "image"
    /\ UNCHANGED <<script, used_articles_file, fact_file, post_files, published,
                   exit_status, post_to_linkedin, used_urls, finder, fact,
                   image_path, add_image, publishing, wrote, ledger_at_start>>

\* generate_linkedin_post_text, the optional promotional line and the
\* write of the post file.
compose_post ==
    /\ script = "bot"
    /\ UNCHANGED <<rotator, composer, watermark>>
    /\ pc = "compose"
    /\ Called("compose")
    /\ \E human_like \in BOOLEAN, plug \in BOOLEAN, kind \in {"generated", "fallback"} :
        LET text == WithPlug(ComposedPost(kind, human_like, fact, article_url), plug)
        IN  /\ post_text' = text
            /\ post_files' = [post_files EXCEPT ![human_like] = [exists |-> TRUE, text |-> text]]
    /\ wrote' = wrote \cup {"post"}
    /\ pc' = "image"
    /\ UNCHANGED <<script, used_articles_file, fact_file, published, exit_status,
                   post_to_linkedin, used_urls, finder, fact, image_path,
                   add_image, publishing, ledger_at_start>>

\* An image step whose failure is raised to main.
generate_image_or_raise ==
    /\ script = "bot"
    /\ UNCHANGED <<rotator, composer, watermark>>
    /\ pc = "image"
    /\ \E wanted \in BOOLEAN :
        /\ add_image' = wanted
        /\ IF wanted
           THEN /\ Called("image")
                /\ \/ image_path' = "raw" /\ pc' = "logo" /\ exit_status' = exit_status
                   \/ image_path' = "none" /\ content_failed
           ELSE /\ calls' = calls
                /\ image_path' = "none"
                /\ pc' = "logo"
                /\ exit_status' = exit_status
    /\ UNCHANGED <<persistent, post_to_linkedin, used_urls,
                   finder, fact, post_text, publishing, wrote, ledger_at_start>>

\* The image step of get_and_save_daily_content: generate_image is called
\* only with --add-image, and returns None on any failure.
generate_image ==
    /\ script = "bot"
    /\ UNCHANGED <<rotator, composer, watermark>>
    /\ pc = "image"
    /\ \E wanted \in BOOLEAN :
        /\ add_image' = wanted
        /\ IF wanted
           THEN /\ Called("image")
                /\ image_path' \in {"raw", "none"}
           ELSE /\ calls' = calls
                /\ image_path' = "none"
    /\ pc' = "logo"
    /\ UNCHANGED <<persistent, exit_status, post_to_linkedin, used_urls,
                   finder, fact, post_text, publishing, wrote, ledger_at_start>>

\* How add_logo_to_image can end: the marked image is saved; an exception
\* before the save (a missing logo file among them); an exception out of
\* the save, when the output file is already open for writing.
LogoOutcomes == {"saved", "failed_before_save", "failed_in_save"}

\* The file at output_path after add_logo_to_image, called by main with
\* output_path = base_image_path: the save writes over the generated image.
ImageAfterLogo(image, outcome) ==
    IF outcome = "saved" THEN "marked"
    ELSE IF outcome = "failed_in_save" THEN "damaged"
    ELSE image

\* A logo step that is taken whatever the run holds.
logo_wanted_whatever(image, no_logo) == TRUE

\* main: `content.get("image_path") and not args.no_logo`
logo_wanted(image, no_logo) == image # "none" /\ ~no_logo

\* main: add_logo_to_image is called on a generated image unless --no-logo;
\* it catches every exception, so main goes on whatever the outcome.
add_logo_to_image ==
    /\ script = "bot"
    /\ UNCHANGED <<rotator, composer, watermark>>
    /\ pc = "logo"
    /\ \E no_logo \in BOOLEAN, outcome \in LogoOutcomes :
        IF logo_wanted(image_path, no_logo)
        THEN /\ Called("overlay")
             /\ image_path' = ImageAfterLogo(image_path, outcome)
        ELSE /\ calls' = calls
             /\ image_path' = image_path
    /\ pc' = "deliver"
    /\ UNCHANGED <<persistent, exit_status, post_to_linkedin, used_urls,
                   finder, fact, post_text, add_image, publishing, wrote,
                   ledger_at_start>>

\* A prompt whose answer is not looked at.
affirmative_whatever(answer) == TRUE

\* user_input.lower() == 'y'
affirmative(answer) == lower(answer) = "y"

\* main without --post-to-linkedin prints the summary and ends; with it,
\* main shows the preview and asks; only the answer y (in either case)
\* goes on to publish.
confirm ==
    /\ script = "bot"
    /\ UNCHANGED <<rotator, composer, watermark>>
    /\ pc = "deliver"
    /\ IF ~post_to_linkedin
       THEN /\ Exit(0)
            /\ user_input' = user_input
       ELSE \E answer \in Answers :
            /\ user_input' = lower(answer)
            /\ IF affirmative(answer)
               THEN pc' = "publish" /\ exit_status' = exit_status
               ELSE Exit(0)
    /\ UNCHANGED <<persistent, post_to_linkedin, used_urls, finder, content,
                   identity, media, post_status, register_status,
                   upload_status, calls, wrote, ledger_at_start>>

\* main after the answer y: the identity is chosen by --company, and the
\* image is passed on only with --add-image.
start_publish ==
    /\ script = "bot"
    /\ UNCHANGED <<rotator, composer, watermark>>
    /\ pc = "publish"
    /\ \E company \in BOOLEAN :
        identity' = IF company THEN "company" ELSE "person"
    /\ pc' = IF add_image /\ image_path # "none" THEN "register" ELSE "post"
    /\ UNCHANGED <<persistent, exit_status, post_to_linkedin, used_urls, finder,
                   content, user_input, media, post_status, register_status,
                   upload_status, calls, wrote, ledger_at_start>>

\* A registration that takes every 2xx answer for a success.
registered_on_2xx(status) == status \in {200, 201}

\* upload_image: `response.status_code != 200` raises.
registered(status) == status = 200

\* An upload whose answer is not looked at.
uploaded_whatever(status) == TRUE

\* upload_image: `upload_response.status_code not in [200, 201]` raises.
uploaded(status) == status \in {200, 201}

\* LinkedInClient.upload_image, step 1: register the upload.  Anything but
\* status 200, and a raised request, ends upload_image with an exception,
\* which post_as_person / post_as_company log and drop.
register_upload ==
    /\ script = "bot"
    /\ UNCHANGED <<rotator, composer, watermark>>
    /\ pc = "register"
    /\ Called("register")
    /\ \E status \in Statuses \cup {NoAnswer} :
        /\ register_status' = status
        /\ pc' = IF registered(status) THEN "upload" ELSE "post"
    /\ UNCHANGED <<persistent, exit_status, post_to_linkedin, used_urls, finder,
                   content, user_input, identity, media, post_status,
                   upload_status, wrote, ledger_at_start>>

\* LinkedInClient.upload_image, step 2: upload the binary; on 200 or 201 the
\* post body is switched to media category IMAGE.
upload_binary ==
    /\ script = "bot"
    /\ UNCHANGED <<rotator, composer, watermark>>
    /\ pc = "upload"
    /\ Called("upload")
    /\ \E status \in Statuses \cup {NoAnswer} :
        /\ upload_status' = status
        /\ media' = IF uploaded(status) THEN "IMAGE" ELSE "NONE"
    /\ pc' = "post"
    /\ UNCHANGED <<persistent, exit_status, post_to_linkedin, used_urls, finder,
                   content, user_input, identity, post_status, register_status,
                   wrote, ledger_at_start>>

\* A main that lets LinkedInError through.
AfterPersonPostFatal(status) == IF status = 201 THEN "record" ELSE "exit1"

\* What main does after post_as_person answered: status 201 returns, any
\* other status raises LinkedInError (caught: the run ends normally), and a
\* raised request is not a LinkedInError and ends the process.
AfterPersonPost(status) ==
    IF status = 201 THEN "record"
    ELSE IF status = NoAnswer THEN "exit1"
    ELSE "exit0"

\* What main does after post_as_company answered: it returns True on 201
\* and False otherwise, and main does not look at the value.
AfterCompanyPost(status) == "record"

\* The post request of post_as_person / post_as_company and main's
\* reaction to its outcome.
post_request ==
    /\ script = "bot"
    /\ UNCHANGED <<rotator, composer, watermark>>
    /\ pc = "post"
    /\ Called("publish")
    /\ \E status \in Statuses \cup {NoAnswer} :
        LET next == IF identity = "company" THEN AfterCompanyPost(status)
                    ELSE AfterPersonPost(status)
        IN  /\ post_status' = status
            /\ published' = IF status = 201 THEN published \cup {article_url}
                            ELSE published
            /\ IF next = "record" THEN pc' = "record" /\ exit_status' = exit_status
               ELSE IF next = "exit1" THEN Exit(1)
               ELSE Exit(0)
    /\ UNCHANGED <<script, files, post_to_linkedin, used_urls, finder, content,
                   user_input, identity, media, register_status, upload_status,
                   wrote, ledger_at_start>>

\* _save_used_article, first statement: the URL joins the in-memory set.
save_used_article_add ==
    /\ script = "bot"
    /\ UNCHANGED <<rotator, composer, watermark>>
    /\ pc = "record"
    /\ Called("record")
    /\ used_urls' = used_urls \cup {article_url}
    /\ pc' = "open_ledger"
    /\ UNCHANGED <<persistent, exit_status, post_to_linkedin, finder, content,
                   publishing, wrote, ledger_at_start>>

\* _save_used_article, open(used_articles_file, 'w'): the file is truncated
\* in place; if the open raises, the file is as before, the error is logged
\* and main ends normally.
save_used_article_open ==
    /\ script = "bot"
    /\ UNCHANGED <<rotator, composer, watermark>>
    /\ pc = "open_ledger"
    /\ \/ /\ used_articles_file' = PartialLedger
          /\ pc' = "dump_ledger"
          /\ exit_status' = exit_status
       \/ /\ used_articles_file' = used_articles_file
          /\ Exit(0)
    /\ UNCHANGED <<script, fact_file, post_files, published, post_to_linkedin,
                   used_urls, finder, content, publishing, calls, wrote,
                   ledger_at_start>>

\* What the ledger file holds after json.dump and the close of the file
\* completed.
DumpedLedger(urls) == JsonLedger(urls)

\* A write whose failure is raised to main and ends the process.
save_used_article_dump_or_raise ==
    /\ script = "bot"
    /\ UNCHANGED <<rotator, composer, watermark>>
    /\ pc = "dump_ledger"
    /\ \/ used_articles_file' = DumpedLedger(used_urls) /\ Exit(0)
       \/ used_articles_file' = PartialLedger /\ Exit(1)
    /\ UNCHANGED <<script, fact_file, post_files, published, post_to_linkedin,
                   used_urls, finder, content, publishing, calls, wrote,
                   ledger_at_start>>

\* _save_used_article, json.dump and the close of the file: the document
\* is written out; if the write raises (a full disk), the file stays
\* partly written, the error is logged and main ends normally.
save_used_article_dump ==
    /\ script = "bot"
    /\ UNCHANGED <<rotator, composer, watermark>>
    /\ pc = "dump_ledger"
    /\ \/ used_articles_file' = DumpedLedger(used_urls)
       \/ used_articles_file' = PartialLedger
    /\ Exit(0)
    /\ UNCHANGED <<script, fact_file, post_files, published, post_to_linkedin,
                   used_urls, finder, content, publishing, calls, wrote,
                   ledger_at_start>>

\* The process dies (killed, power loss) while _save_used_article is at
\* work: nothing more is written.
crash ==
    /\ script = "bot"
    /\ UNCHANGED <<rotator, composer, watermark>>
    /\ pc \in {"open_ledger", "dump_ledger"}
    /\ pc' = "crashed"
    /\ UNCHANGED <<persistent, exit_status, post_to_linkedin, used_urls, finder,
                   content, publishing, calls, wrote, ledger_at_start>>

BotNext ==
    \/ BotStart
    \/ get_daily_topic
    \/ get_article_url
    \/ check_article
    \/ summarize_article
    \/ compose_post
    \/ generate_image
    \/ add_logo_to_image
    \/ confirm
    \/ start_publish
    \/ register_upload
    \/ upload_binary
    \/ post_request
    \/ save_used_article_add
    \/ save_used_article_open
    \/ save_used_article_dump
    \/ crash

\* ------------------------------------------------------------------------
\* daily_knowledge_bot_final.py: no ledger, one request to the search
\* backend, no fallback composition.
\* ------------------------------------------------------------------------

\* main, to the construction of the service: a missing API key is a
\* ConfigurationError, exit status 1.
FinalStart ==
    /\ script = "final"
    /\ UNCHANGED <<topics_file, self_topics, day_of_month, topic, chosen, composer,
                   watermark>>
    /\ ~Running
    /\ FreshProcess
    /\ used_urls' = {}
    /\ \E ptl \in BOOLEAN, config \in {"ok", "no_perplexity_key"} :
        /\ post_to_linkedin' = ptl
        /\ IF config = "ok"
           THEN error' = "none" /\ pc' = "select_topic" /\ exit_status' = -1
           ELSE error' = configuration_error /\ Exit(1)
    /\ post_files' = LeftBehind(post_files)
    /\ UNCHANGED <<script, used_articles_file, fact_file, published>>

\* The topic list the final script starts with.
final_default_topics ==
    <<"astronomy", "history", "biology", "technology", "psychology",
      "ocean life", "ancient civilizations", "quantum physics",
      "art history", "culinary science">>

\* DailyFactService.load_topics_from_file: a missing or blank file keeps
\* the defaults.
final_load_topics(topics_txt) ==
    IF topics_txt = "listed" THEN ListedTopics ELSE final_default_topics

\* DailyFactService.get_daily_topic
final_get_daily_topic ==
    /\ script = "final"
    /\ UNCHANGED <<rotator, composer, watermark>>
    /\ pc = "select_topic"
    /\ \E topics_txt \in TopicsFiles, day \in Days :
        topic_of_day(final_load_topics(topics_txt), day)
            \in Topics \cup {final_default_topics[i] : i \in 1..Len(final_default_topics)}
    /\ pc' = "find"
    /\ UNCHANGED <<persistent, exit_status, post_to_linkedin, used_urls, finder,
                   content, publishing, calls, wrote, ledger_at_start>>

\* The acceptance test of the final script's get_article_url.
FinalAcceptable(url) == startswith_http(url) /\ ~contains(url, " ")

\* PerplexityClient.get_article_url of the final script: one request; a
\* raised request leaves main through its handler with exit status 1.
final_get_article_url ==
    /\ script = "final"
    /\ UNCHANGED <<rotator, composer, watermark>>
    /\ pc = "find"
    /\ Called("search")
    /\ \E answer \in SearchReplies \cup {Raised} :
        /\ reply' = answer
        /\ attempts' = attempts
        /\ IF answer = Raised
           THEN /\ Exit(1)
                /\ article_url' = None
           ELSE /\ pc' = "found"
                /\ exit_status' = exit_status
                /\ article_url' = IF FinalAcceptable(strip(answer))
                                  THEN strip(answer) ELSE None
    /\ UNCHANGED <<persistent, post_to_linkedin, used_urls, content, publishing,
                   wrote, ledger_at_start>>

\* get_and_save_daily_fact on the finder's result: none ends the process
\* with sys.exit(1).
final_check_article ==
    /\ script = "final"
    /\ UNCHANGED <<rotator, composer, watermark>>
    /\ pc = "found"
    /\ IF article_url = None
       THEN Exit(1)
       ELSE pc' = "summarize" /\ exit_status' = exit_status
    /\ attempts' = 0
    /\ reply' = None
    /\ UNCHANGED <<persistent, post_to_linkedin, used_urls, article_url, content,
                   publishing, calls, wrote, ledger_at_start>>

\* The fact file of the final script: a dated header, the fact and the
\* source list.
FinalFactText(f, url) == [header |-> "DAILY FACT", fact |-> f, source |-> url]

\* summarize_article and the write of the fact file; a raised request
\* leaves main with exit status 1.
final_summarize_article ==
    /\ script = "final"
    /\ UNCHANGED <<rotator, composer, watermark>>
    /\ pc = "summarize"
    /\ Called("summarize")
    /\ \/ /\ Exit(1)
          /\ UNCHANGED <<fact, fact_file, wrote>>
       \/ \E summary \in Facts :
            /\ fact' = summary
            /\ fact_file' = [exists |-> TRUE, text |-> FinalFactText(summary, article_url)]
            /\ wrote' = wrote \cup {"fact"}
            /\ pc' = "compose"
            /\ exit_status' = exit_status
    /\ UNCHANGED <<script, used_articles_file, post_files, published,
                   post_to_linkedin, used_urls, finder, post_text, image_path,
                   add_image, publishing, ledger_at_start>>

\* main after the fact: without --linkedin and --post-to-linkedin the run
\* is over; otherwise generate_and_save_linkedin_post asks the backend (a
\* raised request ends the run with status 1) and writes the post file,
\* and without --post-to-linkedin the run ends there.
final_generate_post ==
    /\ script = "final"
    /\ UNCHANGED <<rotator, composer, watermark>>
    /\ pc = "compose"
    /\ \E linkedin \in BOOLEAN :
        IF ~(linkedin \/ post_to_linkedin)
        THEN /\ Exit(0)
             /\ UNCHANGED <<post_text, post_files, wrote, calls>>
        ELSE /\ Called("compose")
             /\ \/ /\ Exit(1)
                   /\ UNCHANGED <<post_text, post_files, wrote>>
                \/ LET text == ComposedPost("generated", FALSE, fact, article_url)
                   IN  /\ post_text' = text
                       /\ post_files' = [post_files EXCEPT ![FALSE] =
                                            [exists |-> TRUE, text |-> text]]
                       /\ wrote' = wrote \cup {"post"}
                       /\ IF post_to_linkedin
                          THEN pc' = "deliver" /\ exit_status' = exit_status
                          ELSE Exit(0)
    /\ UNCHANGED <<script, used_articles_file, fact_file, published,
                   post_to_linkedin, used_urls, finder, fact, image_path,
                   add_image, publishing, ledger_at_start>>

\* confirm.lower() in ['y', 'yes']
final_affirmative(answer) == lower(answer) \in {"y", "yes"}

\* main: the preview and the prompt; any answer but y / yes ends the
\* process with sys.exit(0).
final_confirm ==
    /\ script = "final"
    /\ UNCHANGED <<rotator, composer, watermark>>
    /\ pc = "deliver"
    /\ \E answer \in Answers :
        /\ user_input' = lower(answer)
        /\ IF final_affirmative(answer)
           THEN pc' = "publish" /\ exit_status' = exit_status
           ELSE Exit(0)
    /\ UNCHANGED <<persistent, post_to_linkedin, used_urls, finder, content,
                   identity, media, post_status, register_status,
                   upload_status, calls, wrote, ledger_at_start>>

\* main: the author URN and the LinkedInPoster; a missing or placeholder
\* id or token is a ConfigurationError, exit status 1.
final_author ==
    /\ script = "final"
    /\ UNCHANGED <<topics_file, self_topics, day_of_month, topic, chosen, composer,
                   watermark>>
    /\ pc = "publish"
    /\ \E company \in BOOLEAN, configured \in BOOLEAN :
        /\ identity' = IF company THEN "company" ELSE "person"
        /\ IF configured
           THEN error' = error /\ pc' = "post" /\ exit_status' = exit_status
           ELSE error' = configuration_error /\ Exit(1)
    /\ UNCHANGED <<persistent, post_to_linkedin, used_urls, finder, content,
                   user_input, media, post_status, register_status,
                   upload_status, calls, wrote, ledger_at_start>>

\* LinkedInPoster.post_update: raise_for_status passes every 2xx answer;
\* an error status and a raised request become LinkedInError, exit status 1.
final_post_update ==
    /\ script = "final"
    /\ UNCHANGED <<rotator, composer, watermark>>
    /\ pc = "post"
    /\ Called("publish")
    /\ \E status \in Statuses \cup {NoAnswer} :
        /\ post_status' = status
        /\ published' = IF status = 201 THEN published \cup {article_url}
                        ELSE published
        /\ IF status \in {200, 201} THEN Exit(0) ELSE Exit(1)
    /\ UNCHANGED <<script, files, post_to_linkedin, used_urls, finder, content,
                   user_input, identity, media, register_status, upload_status,
                   wrote, ledger_at_start>>

FinalNext ==
    \/ FinalStart
    \/ final_get_daily_topic
    \/ final_get_article_url
    \/ final_check_article
    \/ final_summarize_article
    \/ final_generate_post
    \/ final_confirm
    \/ final_author
    \/ final_post_update

Next == BotNext \/ FinalNext

Spec == Init /\ [][Next]_vars

\* ------------------------------------------------------------------------
\* Topic rotation in full: the same deployment started once a day through
\* a month, with the topic list and the selected topics kept.
\* ------------------------------------------------------------------------

RotatorInit ==
    /\ script \in {"bot", "final"}
    /\ PipelineAtRest
    /\ ComposerAtRest
    /\ WatermarkAtRest
    /\ topics_file \in TopicsFiles
    /\ self_topics = <<>>
    /\ day_of_month = 1
    /\ topic = NoTopic
    /\ error = "none"
    /\ chosen = <<>>

\* The construction of the service: DailyKnowledgeService starts with an
\* empty list; DailyFactService starts with its defaults and main loads
\* topics.txt over them if the file exists.
rotator_start ==
    /\ pc = "idle"
    /\ self_topics' = IF script = "bot" THEN <<>>
                      ELSE final_load_topics(topics_file)
    /\ pc' = "select_topic"
    /\ UNCHANGED <<persistent, exit_status, post_to_linkedin, used_urls, finder,
                   content, publishing, calls, wrote, ledger_at_start, composer, watermark,
                   topics_file, day_of_month, topic, error, chosen>>

\* get_daily_topic of either script.  DailyKnowledgeService loads the file
\* when its list is empty; the index is taken modulo the length of the
\* list, which raises on an empty list, and main exits with 1.
rotator_get_daily_topic ==
    /\ pc = "select_topic"
    /\ LET loaded == IF script = "bot" /\ self_topics = <<>>
                     THEN load_topics_from_file(topics_file)
                     ELSE self_topics
       IN  /\ self_topics' = loaded
           /\ IF Len(loaded) = 0
              THEN /\ error' = empty_topics_error
                   /\ content_failed
                   /\ UNCHANGED <<topic, chosen>>
              ELSE /\ topic' = topic_of_day(loaded, day_of_month)
                   /\ chosen' = Append(chosen, topic_of_day(loaded, day_of_month))
                   /\ pc' = "find"
                   /\ UNCHANGED <<error, exit_status>>
    /\ UNCHANGED <<persistent, post_to_linkedin, used_urls, finder, content,
                   publishing, calls, wrote, ledger_at_start, composer, watermark,
                   topics_file, day_of_month>>

\* The next day's run: a new process, a day later.
rotator_next_day ==
    /\ pc \in {"find", "exited"}
    /\ day_of_month + 1 \in Days
    /\ day_of_month' = day_of_month + 1
    /\ pc' = "idle"
    /\ exit_status' = -1
    /\ topic' = NoTopic
    /\ error' = "none"
    /\ UNCHANGED <<persistent, post_to_linkedin, used_urls, finder, content,
                   publishing, calls, wrote, ledger_at_start, composer, watermark,
                   topics_file, self_topics, chosen>>

RotatorNext ==
    \/ rotator_start
    \/ rotator_get_daily_topic
    \/ rotator_next_day

RotatorSpec == RotatorInit /\ [][RotatorNext]_vars

\* ------------------------------------------------------------------------
\* The composer in full: the post text as a sequence of tokens.  A token
\* is a whitespace character, a word, a hyphen, the bullet the composer
\* removes, a bracketed reference, an emphasis marker, the citation label,
\* or a piece of a URL.
\* ------------------------------------------------------------------------

\* The bullet literal of the first replace of generate_human_linkedin_post.
Bullet == "bullet"

\* The label of the citation line, as the composer writes it and in
\* another case, which re.IGNORECASE takes for the same.
Label == "Source article here"
LabelLowered == "source article here"

\* What \[\d+\], \[X\] and \[\w+\] match.
DigitRefs == {"[1]"}
XRefs == {"[X]"}
WordRefs == {"[1]", "[X]", "[ab]"}

\* A body of 250 plain words, each separated from the next by one space.
Essay == "essay"

\* The number of whitespace-separated words a token holds.
WordsIn(t) ==
    IF IsSpace(t) THEN 0
    ELSE IF t = Essay THEN 250
    ELSE IF t \in {Label, LabelLowered} THEN 3
    ELSE IF t = "Posted with Linkedin Bot" THEN 4
    ELSE IF t \in {"Artificial Intelligence", "ARTIFICIAL INTELLIGENCE"} THEN 2
    ELSE 1

\* str.upper() on the topics.
upper(t) ==
    IF t = "History" THEN "HISTORY"
    ELSE IF t = "Artificial Intelligence" THEN "ARTIFICIAL INTELLIGENCE"
    ELSE t

\* str.replace(t, '')
remove(s, t) == SelectSeq(s, LAMBDA x : x # t)

\* The length of the whitespace s starts with.
leading_space(s) ==
    LET inked == {i \in 1..Len(s) : ~IsSpace(s[i])}
    IN  IF inked = {} THEN Len(s) ELSE SetMin(inked) - 1

\* re.sub(r'\s*<ref>\s*', ' ', s) for the references in refs: a reference
\* and the whitespace around it become one space.
RECURSIVE re_sub(_, _)
re_sub(s, refs) ==
    IF s = <<>> THEN <<>>
    ELSE LET k == leading_space(s)
         IN  IF k < Len(s) /\ s[k + 1] \in refs
             THEN LET rest == SubSeq(s, k + 2, Len(s))
                  IN  <<" ">> \o re_sub(SubSeq(rest, leading_space(rest) + 1, Len(rest)), refs)
             ELSE <<s[1]>> \o re_sub(Tail(s), refs)

\* Every run of whitespace becomes one space.
RECURSIVE squeeze(_)
squeeze(s) ==
    IF s = <<>> THEN <<>>
    ELSE IF IsSpace(s[1])
         THEN <<" ">> \o squeeze(SubSeq(s, leading_space(s) + 1, Len(s)))
         ELSE <<s[1]>> \o squeeze(Tail(s))

\* ' '.join(content.split())
join_split(s) == squeeze(strip(s))

\* content.split('\n')
RECURSIVE split_lines(_)
split_lines(s) ==
    LET breaks == {i \in 1..Len(s) : s[i] = NL}
    IN  IF breaks = {} THEN <<s>>
        ELSE <<SubSeq(s, 1, SetMin(breaks) - 1)>>
                \o split_lines(SubSeq(s, SetMin(breaks) + 1, Len(s)))

\* sep.join(parts)
RECURSIVE join(_, _)
join(parts, sep) ==
    IF parts = <<>> THEN <<>>
    ELSE IF Len(parts) = 1 THEN parts[1]
    ELSE parts[1] \o sep \o join(Tail(parts), sep)

\* '\n\n'.join([p.strip() for p in content.split('\n') if p.strip()])
join_paragraphs(s) ==
    LET lines == split_lines(s)
        stripped == [i \in 1..Len(lines) |-> strip(lines[i])]
    IN  join(SelectSeq(stripped, LAMBDA p : p # <<>>), <<NL, NL>>)

\* s ends with the tokens of t.
endswith(s, t) ==
    Len(s) >= Len(t) /\ SubSeq(s, Len(s) - Len(t) + 1, Len(s)) = t

\* The tokens that hold letters of both cases or capitals, each with its
\* lower-case form.
CasePairs ==
    {<<Label, LabelLowered>>, <<"HTTP", "http">>, <<"S://", "s://">>,
     <<"NEWS.EXAMPLE", "news.example">>, <<"/A", "/a">>, <<"/B", "/b">>}

\* A text as re.IGNORECASE reads it: every token in lower case.
casefold(s) ==
    [i \in 1..Len(s) |->
        IF \E pair \in CasePairs : pair[1] = s[i]
        THEN (CHOOSE pair \in CasePairs : pair[1] = s[i])[2]
        ELSE s[i]]

\* A URL written in capitals.
Shouted(url) ==
    [i \in 1..Len(url) |->
        IF \E pair \in CasePairs : pair[2] = url[i]
        THEN (CHOOSE pair \in CasePairs : pair[2] = url[i])[1]
        ELSE url[i]]

\* re.search(r'Source article here -\s*' + re.escape(url) + r'\s*$',
\* content, re.IGNORECASE)
ends_with_citation(s, url) ==
    LET r == casefold(rstrip(s))
    IN  /\ endswith(r, casefold(url))
        /\ LET before == rstrip(SubSeq(r, 1, Len(r) - Len(url)))
               n == Len(before)
           IN  /\ n >= 3
               /\ before[n] = "-"
               /\ before[n - 1] = " "
               /\ before[n - 2] = LabelLowered

\* "Source article here - {sources[0]}"
citation(url) == <<Label, " ", "-", " ">> \o url

\* A minimal composition that leaves the source out.
fallback_without_source(t, f, url) == <<upper(t), NL, NL>> \o f

\* The except branch of both composers:
\* f"{topic.upper()}\n\n{fact}\n\nSource article here - {sources[0]}"
fallback(t, f, url) == <<upper(t), NL, NL>> \o f \o <<NL, NL>> \o citation(url)

\* PerplexityClient.generate_human_linkedin_post on the backend's content,
\* Raised when the request or the reading of its answer raised.
generate_human_linkedin_post(t, f, url, reply_content) ==
    IF reply_content = Raised THEN fallback(t, f, url)
    ELSE LET cleaned == strip(remove(remove(reply_content, Bullet), "-"))
             unreferenced == re_sub(re_sub(re_sub(cleaned, DigitRefs), XRefs), WordRefs)
             normalized == join_paragraphs(join_split(unreferenced))
         IN  strip(IF ~ends_with_citation(normalized, url)
                   THEN rstrip(normalized) \o <<NL, NL>> \o citation(url)
                   ELSE normalized)

\* A citation test that takes the letters as they are.
ensure_citation_case_sensitive(generated_text, url) ==
    strip(IF ~(ends_with_citation(generated_text, url)
                /\ casefold(generated_text) = generated_text)
          THEN rstrip(generated_text) \o <<NL, NL, NL>> \o citation(url)
          ELSE generated_text)

\* generate_linkedin_post_text, "Ensure the source is included": the
\* citation is appended unless the content ends with it, and the content
\* is stripped.
ensure_citation(generated_text, url) ==
    strip(IF ~ends_with_citation(generated_text, url)
          THEN rstrip(generated_text) \o <<NL, NL, NL>> \o citation(url)
          ELSE generated_text)

\* PerplexityClient.generate_linkedin_post_text
generate_linkedin_post_text(t, f, url, human, reply_content) ==
    IF human THEN generate_human_linkedin_post(t, f, url, reply_content)
    ELSE IF reply_content = Raised THEN fallback(t, f, url)
    ELSE ensure_citation(reply_content, url)

\* plug_line of get_and_save_daily_content
plug_line ==
    <<NL, NL, "--", NL, "Posted with Linkedin Bot", " ",
      "https://linkedin-bot-automated-c-nkrtmnz.gamma.site/">>

\* A promotional line put in front of the post.
with_plug_line_first(text, wanted) == IF wanted THEN plug_line \o text ELSE text

\* if plug: post_text += plug_line
with_plug_line(text, wanted) == IF wanted THEN text \o plug_line ELSE text

\* The summaries in full: plain, and with a reference mark as the
\* summarization backend likes to add.
FactTexts == {<<"Fact", " ", "one">>, <<"Fact", "[1]">>}

\* The contents the composer's backend can answer with, for the source url.
Generations(url) ==
    { <<"Hi", NL, NL, "Bye">>,
      <<"Hi", NL, NL, NL, "Bye", NL>>,
      <<"Hi", "[1]", " ", "there", "[X]", "[ab]">>,
      <<"**", "Hi", "**", " ", Bullet, " ", "well", "-", "known">>,
      <<"Hi", " ">> \o url \o <<" ", "now">>,
      <<"Hi", NL, NL, Label, " ", "-", " ">> \o url,
      <<"Hi", NL, NL, LabelLowered, " ", "-">> \o url \o <<NL>>,
      <<"Hi", NL, NL, Label, " ", "-", " ">> \o Shouted(url) \o <<" ", NL>>,
      <<Label, " ", "-", " ">> \o url \o <<NL, "#", "facts">>,
      <<"Hi", NL, NL, "Source", ":", " ">> \o url,
      <<Essay>>,
      <<" ">>,
      <<>> }

ComposerInit ==
    /\ script = "bot"
    /\ PipelineAtRest
    /\ RotatorAtRest
    /\ ComposerAtRest
    /\ WatermarkAtRest

\* get_and_save_daily_content up to the composer (lines 665-682): a topic
\* is selected, an article found, and its summary written to the fact file.
composer_reached ==
    /\ script = "bot"
    /\ pc = "idle"
    /\ topic' \in Topics
    /\ article_url' \in {ArticleA, ArticleB}
    /\ \E summary \in FactTexts :
        /\ fact' = summary
        /\ fact_file' = [exists |-> TRUE, text |-> summary]
    /\ calls' = [calls EXCEPT !.search = 1, !.summarize = 1]
    /\ wrote' = {"fact"}
    /\ pc' = "compose"
    /\ UNCHANGED <<script, used_articles_file, post_files, published,
                   exit_status, post_to_linkedin, used_urls, attempts, reply,
                   post_text, image_path, add_image, publishing,
                   ledger_at_start, composer, watermark, topics_file, self_topics,
                   day_of_month, error, chosen>>

\* get_and_save_daily_content, lines 684-698, in full: the composer is
\* called, the promotional line is appended if --plug is set, and the text
\* is written to the post file.
compose_in_full ==
    /\ script = "bot"
    /\ pc = "compose"
    /\ Called("compose")
    /\ \E human \in BOOLEAN, wanted \in BOOLEAN,
          reply_content \in Generations(article_url) \cup {Raised} :
        LET text == with_plug_line(
                        generate_linkedin_post_text(topic, fact, article_url,
                                                    human, reply_content),
                        wanted)
        IN  /\ args_human' = human
            /\ args_plug' = wanted
            /\ generated' = reply_content
            /\ post_text' = text
            /\ post_files' = [post_files EXCEPT ![human] =
                                 [exists |-> TRUE, text |-> text]]
    /\ wrote' = wrote \cup {"post"}
    /\ pc' = "image"
    /\ UNCHANGED <<script, used_articles_file, fact_file, published, exit_status,
                   post_to_linkedin, used_urls, finder, fact, image_path,
                   add_image, publishing, ledger_at_start, rotator,
                   watermark>>

ComposerNext ==
    \/ composer_reached
    \/ compose_in_full

ComposerSpec == ComposerInit /\ [][ComposerNext]_vars

\* ------------------------------------------------------------------------
\* The geometry of add_logo_to_image in full: one base image, one logo.
\* Sizes are <<width, height>> in pixels.
\* ------------------------------------------------------------------------

\* The sizes of the generated image, and two small ones.
BaseSizes ==
    {<<1024, 1024>>, <<1024, 768>>, <<1792, 1024>>, <<512, 512>>,
     <<640, 480>>, <<100, 100>>, <<75, 50>>, <<79, 79>>}

\* The sizes of the logo file: squares, two-to-one banners, a tall one.
LogoSizes ==
    {<<100, 100>>, <<93, 93>>, <<64, 64>>, <<11, 11>>, <<200, 100>>,
     <<186, 93>>, <<300, 120>>, <<7, 49>>}

\* int(base_width * 0.20).  On every width up to 20000 the double product
\* truncates to the integer part of base_width / 5.
logo_width(base_width) == (base_width * 20) \div 100

\* The triples <<logo.size[1], logo_width, logo.size[0]>> of BaseSizes and
\* LogoSizes on which the double `float(logo.size[1]) * logo_ratio`, with
\* logo_ratio = logo_width / float(logo.size[0]) rounded to a double, lies
\* below the integer logo.size[1] * logo_width / logo.size[0].
ProductBelowInteger ==
    {<<11, 15, 11>>, <<93, 102, 93>>, <<93, 102, 186>>, <<93, 204, 93>>,
     <<93, 204, 186>>}

\* int(float(logo.size[1]) * float(logo_ratio)): the product in double
\* arithmetic, truncated.
logo_height(logo_w, logo_h, width) ==
    IF <<logo_h, width, logo_w>> \in ProductBelowInteger
    THEN (logo_h * width) \div logo_w - 1
    ELSE (logo_h * width) \div logo_w

\* int(base_width * 0.02), int(base_height * 0.02): on every extent up to
\* 20000 the integer part of extent / 50.
padding(extent) == (extent * 2) \div 100

\* position = (base_width - logo_width - padding_x,
\*             base_height - logo_height - padding_y)
paste_position(base, mark) ==
    <<base[1] - mark[1] - padding(base[1]), base[2] - mark[2] - padding(base[2])>>

WatermarkInit ==
    /\ script = "bot"
    /\ PipelineAtRest
    /\ RotatorAtRest
    /\ ComposerAtRest
    /\ base_image \in BaseSizes
    /\ logo \in LogoSizes
    /\ resized = None
    /\ position = None

\* add_logo_to_image, the resize of the logo to 20% of the base width.
logo_resize ==
    /\ resized = None
    /\ resized' = <<logo_width(base_image[1]),
                    logo_height(logo[1], logo[2], logo_width(base_image[1]))>>
    /\ UNCHANGED <<persistent, pc, exit_status, post_to_linkedin, used_urls,
                   finder, content, publishing, calls, wrote, ledger_at_start,
                   rotator, composer, base_image, logo, position>>

\* add_logo_to_image, the paste of the resized logo at the bottom right.
logo_paste ==
    /\ resized # None
    /\ position = None
    /\ position' = paste_position(base_image, resized)
    /\ UNCHANGED <<persistent, pc, exit_status, post_to_linkedin, used_urls,
                   finder, content, publishing, calls, wrote, ledger_at_start,
                   rotator, composer, base_image, logo, resized>>

WatermarkNext ==
    \/ logo_resize
    \/ logo_paste

WatermarkSpec == WatermarkInit /\ [][WatermarkNext]_vars

\* ------------------------------------------------------------------------
\* The citation markers of daily_knowledge_bot_final.py in full: the
\* summary, the fact and the fact file's fact as sequences of tokens.
\* ------------------------------------------------------------------------

\* What \[\d+\] matches among the tokens of a summary.
NumberedRefs == {"[1]", "[2]", "[12]"}

\* The marker every numbered reference becomes.
standard_ref == "[1]"

\* The number of replacements re.subn(r'\s*\[\d+\]', ' [1]', s) makes: one
\* for each numbered reference.
num_replacements(s) == Cardinality({i \in 1..Len(s) : s[i] \in NumberedRefs})

\* The text re.subn(r'\s*\[\d+\]', ' [1]', s) returns: a numbered
\* reference and the whitespace before it become a space and "[1]".
RECURSIVE re_subn(_)
re_subn(s) ==
    IF s = <<>> THEN <<>>
    ELSE LET k == leading_space(s)
         IN  IF k < Len(s) /\ s[k + 1] \in NumberedRefs
             THEN <<" ", standard_ref>> \o re_subn(SubSeq(s, k + 2, Len(s)))
             ELSE <<s[1]>> \o re_subn(Tail(s))

\* A standardization that adds no marker to a summary that has none.
standardize_replacing_only(fact_raw) == re_subn(fact_raw)

\* Lines 237-239: the fact made from the raw summary.
standardize(fact_raw) ==
    IF num_replacements(fact_raw) = 0
    THEN re_subn(fact_raw) \o <<" ", standard_ref>>
    ELSE re_subn(fact_raw)

\* The contents the summarization backend can answer with.
Summaries ==
    { <<"Fact", " ", "one">>,
      <<"Fact", " ", "one", ".", NL>>,
      <<"Fact", "[1]">>,
      <<"Fact", " ", "[1]", ".">>,
      <<"Fact", "[2]", ".">>,
      <<"Fact", " ", NL, "[12]", " ", "more">>,
      <<"Fact", "[1]", "[2]", ".">>,
      <<"Fact", "[2]", " ", "and", " ", " ", "[12]", " ", "[1]">>,
      <<"[2]", " ", "Fact">>,
      <<" ", "[2]", " ", "Fact", " ">>,
      <<"Fact", " ", "[X]">>,
      <<"Fact", "[ab]", "[2]">>,
      <<"Fact", " ", "[", "[2]", "]">>,
      <<"Fact", " ", "one", " ", NL, "two">>,
      <<"[12]">>,
      <<" ">>,
      <<>> }

StandardizerInit ==
    /\ script = "final"
    /\ PipelineAtRest
    /\ RotatorAtRest
    /\ ComposerAtRest
    /\ WatermarkAtRest

\* get_and_save_daily_fact up to the summarizer (lines 225-233): a topic
\* is selected and an article found.
standardizer_reached ==
    /\ script = "final"
    /\ pc = "idle"
    /\ topic' \in Topics
    /\ article_url' \in {ArticleA, ArticleB}
    /\ calls' = [calls EXCEPT !.search = 1]
    /\ pc' = "summarize"
    /\ UNCHANGED <<script, used_articles_file, fact_file, post_files, published,
                   exit_status, post_to_linkedin, used_urls, attempts, reply,
                   content, publishing, wrote, ledger_at_start, composer,
                   watermark, topics_file, self_topics, day_of_month, error,
                   chosen>>

\* get_and_save_daily_fact, lines 234-253, in full: summarize_article
\* returns the backend's content stripped, the markers are standardized,
\* and the fact is written, stripped, to the fact file; the fact is
\* returned as standardized.  A raised request leaves main with exit
\* status 1.
standardize_in_full ==
    /\ script = "final"
    /\ pc = "summarize"
    /\ Called("summarize")
    /\ \E summary \in Summaries \cup {Raised} :
        /\ generated' = summary
        /\ IF summary = Raised
           THEN /\ Exit(1)
                /\ UNCHANGED <<fact, fact_file, wrote>>
           ELSE LET fact_raw == strip(summary)
                    standardized == standardize(fact_raw)
                IN  /\ fact' = standardized
                    /\ fact_file' = [exists |-> TRUE,
                                     text |-> FinalFactText(strip(standardized),
                                                            article_url)]
                    /\ wrote' = wrote \cup {"fact"}
                    /\ pc' = "compose"
                    /\ exit_status' = exit_status
    /\ UNCHANGED <<script, used_articles_file, post_files, published,
                   post_to_linkedin, used_urls, finder, post_text, image_path,
                   add_image, publishing, ledger_at_start, rotator, args_human,
                   args_plug, watermark>>

StandardizerNext ==
    \/ standardizer_reached
    \/ standardize_in_full

StandardizerSpec == StandardizerInit /\ [][StandardizerNext]_vars

\* ------------------------------------------------------------------------
\* Properties.
\* ------------------------------------------------------------------------

\* The stages of a run of daily_knowledge_bot.py in which the article is
\* chosen and this run's post request has not been answered yet.
BeforePublished ==
    {"found", "summarize", "compose", "image", "logo", "deliver", "publish",
     "register", "upload", "post"}

\* C1: a URL is in the ledger (the in-memory set or the ledger file) only
\* if the platform confirmed the post citing it; a rejected or failed
\* publish attempt leaves the ledger unchanged.
C1_LedgerOnlyAfterConfirmedPublish ==
    script = "bot" =>
        /\ used_urls \subseteq published
        /\ _load_used_articles(used_articles_file) \subseteq published

\* C2: once a run has published a post citing URL u, no later run selects
\* u as its article.
C2_NoSourceReuse ==
    (script = "bot" /\ pc \in BeforePublished /\ article_url # None)
        => article_url \notin published

\* C3: get_article_url never returns a member of usedUrls, a URL of a
\* denylisted domain, a string with a space or one not starting with http.
C3_FinderGuarantee ==
    (script = "bot" /\ pc \in BeforePublished /\ article_url # None) =>
        /\ article_url \notin used_urls
        /\ article_url \notin _load_used_articles(ledger_at_start)
        /\ article_url[1] = "http"
        /\ \A i \in 1..Len(article_url) :
              article_url[i] \notin {" ", "wikipedia.org", "youtube.com", "youtu.be"}

\* A run whose finder refused a candidate and then returned a fresh URL
\* while the exclusion set was not empty.
C3_Witness ==
    /\ script = "bot"
    /\ pc = "found"
    /\ article_url = ArticleB
    /\ ArticleA \in used_urls
    /\ attempts = 2

\* C4: get_article_url makes at most 3 requests, returns the first
\* acceptable candidate without a further request, returns none (it does
\* not raise) when all 3 attempts failed, and terminates: while it loops,
\* fewer than 3 requests were made, each pass makes one, and a pass is
\* always possible.
C4_BoundedRetry ==
    script = "bot" =>
        /\ calls.search <= 3
        /\ pc = "find" =>
              /\ calls.search = attempts
              /\ attempts < 3
              /\ ENABLED get_article_url
        /\ (pc = "found" /\ article_url # None) =>
              /\ calls.search = attempts + 1
              /\ reply # Raised
              /\ strip(reply) = article_url
        /\ (pc = "found" /\ article_url = None) =>
              /\ calls.search = 3
              /\ attempts = 3
              /\ exit_status = -1

\* The finder gave up after three failed attempts, the last a raised request.
C4_Witness ==
    /\ script = "bot"
    /\ pc = "found"
    /\ article_url = None
    /\ calls.search = 3
    /\ reply = Raised

\* The user answered the prompt with something the script does not take
\* for a yes.
Declined ==
    /\ user_input # "unasked"
    /\ IF script = "bot" THEN user_input # "y" ELSE user_input \notin {"y", "yes"}

\* What this run's fact file must hold.
FactFileText == IF script = "bot" THEN fact ELSE FinalFactText(fact, article_url)

\* C5: when the caller declines, the publisher is never called, the ledger
\* (in memory and on disk) is unchanged, the fact file and the post file of
\* the run still hold what the run wrote, and the exit status is 0; the
\* publisher is called only after an affirmative answer, and never in a
\* run where publishing was not requested.
C5_DeclineTouchesNothing ==
    /\ (pc = "exited" /\ Declined) =>
          /\ calls.publish = 0 /\ calls.register = 0 /\ calls.upload = 0
          /\ calls.record = 0
          /\ used_articles_file = ledger_at_start
          /\ used_urls = _load_used_articles(ledger_at_start)
          /\ fact_file.exists /\ fact_file.text = FactFileText
          /\ post_files[post_text.human].exists
          /\ post_files[post_text.human].text = post_text
          /\ exit_status = 0
    /\ (calls.publish > 0 \/ calls.register > 0 \/ calls.upload > 0) =>
          /\ post_to_linkedin
          /\ user_input \in {"y", "yes"}
          /\ script = "bot" => user_input = "y"

\* The user answered n to a run that found a ledger with an entry.
C5_Witness ==
    /\ script = "bot"
    /\ pc = "exited"
    /\ user_input = "n"
    /\ ledger_at_start = JsonLedger({ArticleA})
    /\ article_url = ArticleB
    /\ exit_status = 0

\* The run ended in the summarizer's failure.
SummarizerFailed == pc = "exited" /\ calls.summarize > 0 /\ fact = NoFact

\* C6: if the summarization call fails the run aborts: the summarizer is
\* not retried, the run writes no fact file and no post file, compose,
\* image and publish are never invoked, the ledger is unchanged and the
\* exit status is not 0.
C6_SummarizeFailureAborts ==
    SummarizerFailed =>
        /\ exit_status = 1
        /\ calls.summarize = 1
        /\ wrote = {}
        /\ post_text = NoText
        /\ post_files = LeftBehind(post_files)
        /\ calls.compose = 0 /\ calls.image = 0
        /\ calls.register = 0 /\ calls.upload = 0 /\ calls.publish = 0
        /\ calls.record = 0
        /\ used_articles_file = ledger_at_start
        /\ used_urls = _load_used_articles(ledger_at_start)

\* The summarizer failed in a run of the ledger script that had found an
\* article, in a directory that holds an earlier run's fact file.
C6_Witness ==
    /\ SummarizerFailed
    /\ script = "bot"
    /\ article_url = ArticleA
    /\ fact_file.exists
    /\ exit_status = 1

\* The run ended because the finder returned none.
FinderReturnedNone ==
    /\ pc = "exited"
    /\ calls.search > 0
    /\ article_url = None
    /\ reply # Raised \/ script = "bot"

\* C7: when the source finder returns none the run is aborted before the
\* summarizer is called: no fact file or post file is written, the ledger
\* is not mutated and the exit status is not 0.
C7_NoSourceAborts ==
    FinderReturnedNone =>
        /\ exit_status = 1
        /\ calls.summarize = 0
        /\ fact = NoFact
        /\ wrote = {}
        /\ post_files = LeftBehind(post_files)
        /\ calls.compose = 0 /\ calls.publish = 0 /\ calls.record = 0
        /\ used_articles_file = ledger_at_start
        /\ used_urls = _load_used_articles(ledger_at_start)

\* The finder of the ledger script gave up after three attempts, with a
\* ledger that held an entry.
C7_Witness ==
    /\ FinderReturnedNone
    /\ script = "bot"
    /\ calls.search = 3
    /\ ledger_at_start = JsonLedger({ArticleA})
    /\ exit_status = 1

\* C8: if the process crashes during _save_used_article, the ledger file
\* afterwards still loads to a set that contains every URL recorded before
\* that call.
C8_CrashKeepsLedger ==
    pc = "crashed" =>
        _load_used_articles(ledger_at_start)
            \subseteq _load_used_articles(used_articles_file)

\* C9: after record(url) a subsequent load() returns a set containing url;
\* load() on a missing or unparsable ledger file returns the empty set.
C9_RoundTrip ==
    /\ (script = "bot" /\ pc = "exited" /\ calls.record = 1) =>
          article_url \in _load_used_articles(used_articles_file)
    /\ (script = "bot" /\ pc = "select_topic"
          /\ ledger_at_start.kind \in {"absent", "partial"}) =>
          used_urls = {}

\* C10: the ledger is append-only: after every record operation the
\* persisted set is a superset of the set persisted before it.
C10_AppendOnly ==
    (script = "bot" /\ pc = "exited" /\ calls.record = 1) =>
        _load_used_articles(ledger_at_start)
            \subseteq _load_used_articles(used_articles_file)

\* How often the tokens of t occur in s.
Occurrences(s, t) ==
    Cardinality({i \in 1..Len(s) :
                    i + Len(t) - 1 <= Len(s) /\ SubSeq(s, i, i + Len(t) - 1) = t})

\* The number of whitespace-separated words of s: tokens that follow each
\* other without whitespace make one word.
RECURSIVE WordCount(_)
WordCount(s) ==
    IF s = <<>> THEN 0
    ELSE WordsIn(s[1]) + WordCount(Tail(s))
            - (IF Len(s) >= 2 /\ ~IsSpace(s[1]) /\ ~IsSpace(s[2]) THEN 1 ELSE 0)

\* The places of s where two or more blank lines follow each other.
BlankLineRuns(s) ==
    {i \in 1..Len(s) : i + 2 <= Len(s) /\ s[i] = NL /\ s[i + 1] = NL /\ s[i + 2] = NL}

\* The number of paragraphs of s: the blocks of text that a blank line
\* separates from what precedes them.
ParagraphCount(s) ==
    LET inked == {i \in 1..Len(s) : ~IsSpace(s[i])}
    IN  Cardinality({i \in inked :
            \/ i = SetMin(inked)
            \/ i > 2 /\ s[i - 1] = NL /\ s[i - 2] = NL})

\* What the composer returned: the post text without the promotional line.
ComposerOutput ==
    IF args_plug THEN SubSeq(post_text, 1, Len(post_text) - Len(plug_line))
    ELSE post_text

\* C11: in both tones, when the generation call fails the composer does
\* not raise and returns exactly the topic uppercased, a blank line, the
\* fact, a blank line and the line "Source article here - <sourceUrl>"; the
\* composer always yields a post and the run goes on.
C11_FallbackOnFailure ==
    /\ pc = "compose" => ENABLED compose_in_full
    /\ pc = "image" =>
          /\ exit_status = -1
          /\ ComposerOutput # <<>>
          /\ post_files[args_human].exists
    /\ (pc = "image" /\ generated = Raised) =>
          ComposerOutput = <<upper(topic), NL, NL>> \o fact
                              \o <<NL, NL, "Source article here", " ", "-", " ">>
                              \o article_url

\* The generation call failed in a run in conversational tone on History.
C11_Witness ==
    /\ pc = "image"
    /\ generated = Raised
    /\ args_human
    /\ topic = "History"
    /\ post_text[1] = "HISTORY"
    /\ fact = <<"Fact", "[1]">>

\* C12: for every generated text and both tones the composed post contains
\* the source URL exactly once, in a citation line at its end.
C12_OneCitationAtEnd ==
    (pc = "image" /\ generated # Raised) =>
        /\ Occurrences(ComposerOutput, article_url) = 1
        /\ ends_with_citation(ComposerOutput, article_url)

\* C13: in conversational tone the composed post holds no bracketed
\* reference and no markdown emphasis marker, whatever the generator
\* emitted and also in the minimal composition.
C13_NoArtifactsInConversationalTone ==
    (pc = "image" /\ args_human) =>
        \A i \in 1..Len(ComposerOutput) :
            ComposerOutput[i] \notin {"[1]", "[X]", "**"}

\* The word budget the composer's prompt names.
word_budget == 200

\* C14: for both tones and every generated text the composed post has at
\* most 200 words.
C14_WithinWordBudget ==
    pc = "image" => WordCount(ComposerOutput) <= word_budget

\* C15: in both tones the paragraphs of the generated text are kept, and
\* paragraphs (the citation included) are separated by exactly one blank
\* line: nowhere do two or more blank lines follow each other.
C15_SingleBlankLines ==
    pc = "image" =>
        /\ BlankLineRuns(ComposerOutput) = {}
        /\ generated # Raised =>
              ParagraphCount(ComposerOutput) >= ParagraphCount(generated)

\* C16: with --plug the promotional line is appended once and ends the
\* post text, after the citation, in both tones and in the minimal
\* composition; without it the post text is the composer's output; the
\* post file holds the post text the bundle returns.
C16_PlugLast ==
    pc = "image" =>
        LET out == generate_linkedin_post_text(topic, fact, article_url,
                                               args_human, generated)
        IN  /\ endswith(casefold(out), casefold(article_url))
            /\ args_plug =>
                  /\ post_text = out \o <<NL, NL, "--", NL, "Posted with Linkedin Bot", " ",
                                         "https://linkedin-bot-automated-c-nkrtmnz.gamma.site/">>
                  /\ Occurrences(post_text, <<"Posted with Linkedin Bot">>) = 1
            /\ ~args_plug => post_text = out
            /\ post_files[args_human] = [exists |-> TRUE, text |-> post_text]

\* The promotional line after the minimal composition, standard tone.
C16_Witness ==
    /\ pc = "image"
    /\ args_plug
    /\ ~args_human
    /\ generated = Raised
    /\ post_text[Len(post_text) - 2] = "Posted with Linkedin Bot"

\* The topic list the service of the running script works with, given what
\* topics.txt holds.
ListInUse ==
    IF script = "bot" THEN load_topics_from_file(topics_file)
    ELSE final_load_topics(topics_file)

\* C17: on a non-empty topic list of length N the topic selected on a day
\* is topics[(day-1) mod N]; the selection is a function of the list and
\* the day alone, leaves the list as it was loaded, and repeats with period
\* N over the days of the month; with the list AI, History it selects AI on
\* day 3 and History on day 4.
C17_TopicOfDay ==
    pc = "find" =>
        LET N == Len(self_topics)
        IN  /\ N > 0
            /\ self_topics = ListInUse
            /\ topic = self_topics[((day_of_month - 1) % N) + 1]
            /\ Len(chosen) = day_of_month
            /\ \A d \in 1..Len(chosen) :
                  /\ chosen[d] = self_topics[((d - 1) % N) + 1]
                  /\ d + N <= Len(chosen) => chosen[d + N] = chosen[d]
            /\ (self_topics = <<"AI", "History">> /\ day_of_month >= 4) =>
                  chosen[3] = "AI" /\ chosen[4] = "History"

\* The fourth day of a deployment whose topics.txt lists AI and History.
C17_Witness ==
    /\ script = "bot"
    /\ pc = "find"
    /\ self_topics = <<"AI", "History">>
    /\ day_of_month = 4
    /\ topic = "History"
    /\ chosen[3] = "AI"

\* C18: topic selection on an empty topic list fails with
\* ConfigurationError and with no other kind of error.
C18_EmptyListIsConfigurationError ==
    (pc = "exited" /\ self_topics = <<>>) => error = "ConfigurationError"

\* C19 as stated: with topics.txt missing the list in use has a single
\* element, the same topic is selected on every day, and the run goes on.
C19_SingleDefaultTopic ==
    (topics_file = "missing" /\ pc \in {"find", "exited"}) =>
        /\ pc = "find"
        /\ error = "none"
        /\ Len(self_topics) = 1
        /\ \A d \in 1..Len(chosen) : chosen[d] = chosen[1]

\* C19, amended: with topics.txt missing, daily_knowledge_bot.py works with
\* the single topic Artificial Intelligence on every day of the month, and
\* daily_knowledge_bot_final.py keeps its ten default topics, of which it
\* selects the one at (day-1) mod 10; in both the run goes on.
C19_DefaultTopics ==
    (topics_file = "missing" /\ pc \in {"find", "exited"}) =>
        /\ pc = "find"
        /\ error = "none"
        /\ exit_status = -1
        /\ Len(chosen) = day_of_month
        /\ IF script = "bot"
           THEN /\ self_topics = <<"Artificial Intelligence">>
                /\ \A d \in 1..Len(chosen) : chosen[d] = "Artificial Intelligence"
           ELSE /\ self_topics = final_default_topics
                /\ Len(self_topics) = 10
                /\ \A d \in 1..Len(chosen) :
                      chosen[d] = final_default_topics[((d - 1) % 10) + 1]

\* The last day of a month without a topics file, ledger script.
C19_Witness ==
    /\ script = "bot"
    /\ topics_file = "missing"
    /\ pc = "find"
    /\ day_of_month = 31
    /\ topic = "Artificial Intelligence"
    /\ Len(chosen) = 31

\* C20: image generation never aborts the pipeline: when the image backend
\* fails, generate_image returns none, and get_and_save_daily_content still
\* returns the fact, the post text and the article URL with no image, the
\* fact file and the post file being written; a run that asked for an
\* image does not end in an error before it reaches the publisher.
C20_ImageFailureGoesOn ==
    script = "bot" =>
        /\ pc = "image" => ENABLED generate_image
        /\ (pc = "logo" /\ add_image /\ image_path = "none") =>
              /\ calls.image = 1
              /\ exit_status = -1
              /\ fact # NoFact /\ post_text # NoText /\ article_url # None
              /\ wrote = {"fact", "post"}
              /\ fact_file = [exists |-> TRUE, text |-> fact]
              /\ post_files[post_text.human] = [exists |-> TRUE, text |-> post_text]
        /\ (calls.image > 0 /\ exit_status = 1) => calls.publish > 0

\* The image backend failed in a run that asked for an image.
C20_Witness ==
    /\ script = "bot"
    /\ pc = "logo"
    /\ add_image
    /\ image_path = "none"
    /\ calls.image = 1
    /\ article_url = ArticleA

\* C21: the stages of a run of daily_knowledge_bot.py happen in the order
\* select topic, find source, summarize, compose, generate image, await the
\* decision, publish, record: the search starts only with a topic, the
\* summarizer is called only with a URL the finder accepted, the composer
\* only with the summarizer's fact, the image generator only after the
\* draft, the prompt only after the image step, the publisher only after
\* the draft exists and the answer y was given, the ledger record only
\* after the publish call; and a run at a stage has been through every
\* required stage before it.
C21_StagesInOrder ==
    script = "bot" =>
        /\ calls.search > 0 => error = "none"
        /\ calls.summarize > 0 =>
              /\ calls.search > 0
              /\ article_url # None
              /\ Acceptable(article_url, _load_used_articles(ledger_at_start))
        /\ (calls.compose > 0 \/ pc = "compose") =>
              /\ calls.summarize = 1
              /\ fact \in Facts
        /\ (calls.image > 0 \/ pc \in {"image", "logo", "deliver"}) =>
              /\ calls.compose = 1
              /\ post_text # NoText
              /\ post_text.fact = fact
              /\ post_text.source = article_url
        /\ pc = "deliver" => (add_image => calls.image = 1)
        /\ user_input # "unasked" =>
              /\ calls.compose = 1
              /\ pc \notin {"image", "logo", "deliver"}
              /\ add_image => calls.image = 1
        /\ (calls.register > 0 \/ calls.publish > 0 \/ pc \in {"publish", "post"}) =>
              /\ post_to_linkedin
              /\ user_input = "y"
              /\ post_text # NoText
              /\ post_files[post_text.human] = [exists |-> TRUE, text |-> post_text]
        /\ calls.upload > 0 => calls.register = 1
        /\ calls.publish > 0 => calls.register = calls.image \/ image_path = "none"
        /\ (calls.record > 0 \/ pc = "record") => calls.publish = 1
        /\ calls.record > 0 => pc \notin BeforePublished

\* A run that went through every stage, the optional ones included.
C21_Witness ==
    /\ script = "bot"
    /\ pc = "exited"
    /\ exit_status = 0
    /\ calls = [search |-> 2, summarize |-> 1, compose |-> 1, image |-> 1,
                overlay |-> 1, register |-> 1, upload |-> 1, publish |-> 1,
                record |-> 1]
    /\ article_url = ArticleB
    /\ user_input = "y"

\* C22: the orchestrator retries no stage: in one run the summarizer, the
\* post generator, the image generator, the publish call and the ledger
\* record are each invoked at most once (the two requests of the image
\* upload too), and the search backend at most 3 times, whatever failures
\* occur.
C22_NoRetries ==
    /\ calls.summarize <= 1
    /\ calls.compose <= 1
    /\ calls.image <= 1
    /\ calls.register <= 1
    /\ calls.upload <= 1
    /\ calls.publish <= 1
    /\ calls.record <= 1
    /\ calls.search <= max_attempts
    /\ script = "final" => calls.search <= 1

\* A run in which the search was asked three times, the composer fell
\* back, the image backend failed and the platform rejected the post: every
\* stage was called once all the same.
C22_Witness ==
    /\ script = "bot"
    /\ pc = "exited"
    /\ calls = [search |-> 3, summarize |-> 1, compose |-> 1, image |-> 1,
                overlay |-> 0, register |-> 0, upload |-> 0, publish |-> 1,
                record |-> 0]
    /\ post_text.kind = "fallback"
    /\ add_image /\ image_path = "none"
    /\ post_status = 403

\* The steps of main after get_and_save_daily_content returned.
AfterContent ==
    {"deliver", "publish", "register", "upload", "post", "record",
     "open_ledger", "dump_ledger"}

\* C23: every run of daily_knowledge_bot.py that gets past summarization,
\* whether fully successful or degraded (composer fallback, no image,
\* publish declined, publish failed), has written the fact file with the
\* fact of the bundle and, once the composer returned, the post file with
\* the post text of the bundle, and ends with both on disk; the
\* confirmation, publish and ledger-record steps change neither file nor
\* the bundle.
C23_ArtifactTrail ==
    /\ [](script = "bot" =>
            /\ fact # NoFact => fact_file = [exists |-> TRUE, text |-> fact]
            /\ (fact # NoFact /\ pc # "compose") =>
                  /\ post_text # NoText
                  /\ post_text.fact = fact
                  /\ post_files[post_text.human] = [exists |-> TRUE, text |-> post_text]
                  /\ wrote = {"fact", "post"})
    /\ [][(script = "bot" /\ pc \in AfterContent) =>
            /\ fact_file' = fact_file
            /\ post_files' = post_files
            /\ fact' = fact
            /\ post_text' = post_text]_vars

\* A degraded run at its end: the composer fell back, the image backend
\* failed and the platform rejected the post; both files hold the bundle.
C23_Witness ==
    /\ script = "bot"
    /\ pc = "exited"
    /\ post_text # NoText
    /\ post_text.kind = "fallback"
    /\ add_image /\ image_path = "none"
    /\ post_status = 403
    /\ fact_file = [exists |-> TRUE, text |-> fact]
    /\ post_files[post_text.human] = [exists |-> TRUE, text |-> post_text]

\* C24: a fact artifact and a post-draft artifact are immutable once
\* written: after the day's fact file (and the post file of a given tone)
\* has been created, no later step of the run and no later run on the same
\* day changes its content.  (The post files are compared within a run,
\* where the model keeps their text.)
C24_ArtifactsImmutable ==
    [][/\ fact_file.exists => fact_file' = fact_file
       /\ \A human \in BOOLEAN :
            (Running /\ post_files[human].exists) =>
                post_files'[human] = post_files[human]]_vars

\* C25: configuration errors (missing or placeholder credentials of the
\* search, image and publishing capabilities) are detected before the
\* pipeline starts: the run ends with a non-zero status before any external
\* call is made, before any fact or post artifact is written and before
\* the confirmation prompt.
C25_ConfigurationErrorsPreflight ==
    error = configuration_error =>
        /\ pc = "exited"
        /\ exit_status # 0
        /\ calls = NoCalls
        /\ wrote = {}
        /\ user_input = "unasked"

\* The run ended in a configuration error or a fatal pipeline error: no
\* topic, no source found, or the summarizer failed.
FatalError ==
    /\ pc = "exited"
    /\ \/ error \in {configuration_error, empty_topics_error}
       \/ FinderReturnedNone
       \/ script = "final" /\ reply = Raised
       \/ SummarizerFailed

\* The run ended past summarization, publishing was not requested, and no
\* request of the run failed but, possibly, the image backend's.
NotRequested ==
    /\ pc = "exited"
    /\ fact # NoFact
    /\ ~post_to_linkedin
    /\ script = "final" => (calls.compose = 0 \/ post_text # NoText)

\* The run ended after the platform answered the post request with an
\* error status.
Rejected == pc = "exited" /\ post_status = 403

\* C26 as stated, for both scripts: a configuration error or a fatal
\* pipeline error ends the process with a non-zero status; a run whose only
\* failures are recoverable (no image, the platform rejected the post, the
\* user declined, publishing was not requested) ends with status 0.
C26_ExitStatusPolicy ==
    /\ FatalError => exit_status # 0
    /\ (NotRequested \/ Declined \/ Rejected) => exit_status = 0

\* C26, amended: fatal errors end either script with a non-zero status,
\* and a declined or not requested publication ends either with 0; a post
\* the platform rejected ends daily_knowledge_bot.py with 0 and
\* daily_knowledge_bot_final.py, whose handler exits on LinkedInError,
\* with 1.  A missing image changes none of this.
C26_ExitStatusByScript ==
    /\ FatalError => exit_status = 1
    /\ (NotRequested \/ Declined) => exit_status = 0
    /\ Rejected => exit_status = IF script = "bot" THEN 0 ELSE 1
    /\ (pc = "exited" /\ script = "final" /\ calls.compose = 1 /\ post_text = NoText)
          => exit_status = 1

\* The platform rejected the post of a personal account in a run of
\* daily_knowledge_bot.py whose image backend had failed too.
C26_Witness ==
    /\ script = "bot"
    /\ Rejected
    /\ identity = "person"
    /\ add_image /\ image_path = "none"
    /\ exit_status = 0

\* A URL that is well formed and of no denylisted domain.
Admissible(url) ==
    /\ startswith_http(url)
    /\ ~contains(url, " ")
    /\ \A domain \in DenyList : ~contains(url, domain)

\* The URLs of the ledger, in memory and on disk.
Recorded == used_urls \cup _load_used_articles(used_articles_file)

\* C27: the only URL a run can add to the ledger is the URL its source
\* finder returned, the one the post cites; a candidate the finder rejected
\* (denylisted, already used or malformed) never enters the ledger, and
\* while the finder is still asking after a rejected candidate nothing has
\* been selected or recorded.
C27_OnlyTheFoundUrlIsRecorded ==
    script = "bot" =>
        /\ Recorded \subseteq
              _load_used_articles(ledger_at_start)
                \cup (IF calls.record > 0 THEN {article_url} ELSE {})
        /\ \A url \in Recorded : Admissible(url)
        /\ calls.record > 0 =>
              /\ article_url # None
              /\ Admissible(article_url)
              /\ article_url \notin _load_used_articles(ledger_at_start)
              /\ post_text.source = article_url
        /\ (pc = "find" /\ attempts > 0) =>
              /\ article_url = None
              /\ \/ reply = Raised
                 \/ ~Admissible(strip(reply))
                 \/ strip(reply) \in used_urls
              /\ Recorded \subseteq _load_used_articles(ledger_at_start)

\* The ledger held one article; the backend's first candidate was rejected,
\* its second was the fresh article, which was published and recorded.
C27_Witness ==
    /\ script = "bot"
    /\ pc = "exited"
    /\ ledger_at_start = JsonLedger({ArticleA})
    /\ calls.search = 2
    /\ calls.record = 1
    /\ article_url = ArticleB
    /\ used_articles_file = JsonLedger({ArticleA, ArticleB})

\* C28: when an image is present, publishing follows the two-step image
\* flow in order: register the upload, then upload the binary, then create
\* the post; the post request references an image asset only if both the
\* registration (status 200) and the binary upload (status 200 or 201)
\* succeeded, and the binary upload is never attempted after a failed
\* registration.
C28_ImageFlow ==
    script = "bot" =>
        /\ calls.register > 0 => (add_image /\ image_path # "none")
        /\ pc \in {"register", "upload"} => calls.publish = 0
        /\ (calls.upload > 0 \/ pc = "upload") =>
              /\ calls.register = 1
              /\ register_status = 200
        /\ register_status \notin {0, 200} =>
              /\ calls.upload = 0
              /\ upload_status = 0
              /\ media = "NONE"
        /\ calls.publish > 0 =>
              /\ (add_image /\ image_path # "none") => calls.register = 1
              /\ register_status = 200 => calls.upload = 1
              /\ media = "IMAGE" <=>
                    (register_status = 200 /\ upload_status \in {200, 201})

\* A post with the image attached, after a registration answered with 200
\* and an upload answered with 201.
C28_Witness ==
    /\ script = "bot"
    /\ calls.register = 1 /\ calls.upload = 1 /\ calls.publish = 1
    /\ register_status = 200
    /\ upload_status = 201
    /\ media = "IMAGE"
    /\ post_status = 201

\* C29: for every base image of size W x H and every logo, the logo is
\* resized to width floor(0.20 * W) with its aspect ratio preserved (its
\* height is the integer part of the height the ratio gives) and pasted
\* with its top-left corner at (W - markWidth - floor(0.02 * W),
\* H - markHeight - floor(0.02 * H)); the size and the position depend only
\* on W, H and the logo's aspect ratio.
C29_WatermarkGeometry ==
    position # None =>
        /\ resized[1] = base_image[1] \div 5
        /\ resized[2] * logo[1] <= logo[2] * resized[1]
        /\ logo[2] * resized[1] < (resized[2] + 1) * logo[1]
        /\ position = <<base_image[1] - resized[1] - (base_image[1] \div 50),
                        base_image[2] - resized[2] - (base_image[2] \div 50)>>
        /\ \A other \in LogoSizes :
              other[1] * logo[2] = other[2] * logo[1] =>
                  logo_height(other[1], other[2], resized[1]) = resized[2]

\* C30: a missing logo file, or any other failure of the logo step, is not
\* fatal: add_logo_to_image never raises, the generated image file is left
\* as it was unless the logo was added, and the run goes on to the publish
\* decision.
C30_LogoFailureLeavesImage ==
    [][(script = "bot" /\ pc = "logo") =>
          /\ pc' = "deliver"
          /\ exit_status' = exit_status
          /\ image_path' \in {image_path, "marked"}]_vars

UploadFailed ==
    \/ register_status \notin {0, 200}
    \/ upload_status \notin {0, 200, 201}

\* C32: a failure of the image upload during publishing (the registration
\* or the upload of the binary, for either identity) does not abort
\* publishing: the run is at the post request or has made it, exactly
\* once, as a text-only post with media category NONE.
C32_UploadFailureStillPosts ==
    (script = "bot" /\ UploadFailed) =>
        /\ media = "NONE"
        /\ identity \in {"person", "company"}
        /\ \/ pc = "post" /\ calls.publish = 0 /\ exit_status = -1
           \/ calls.publish = 1 /\ post_status # 0
        /\ pc = "post" => ENABLED post_request

\* A company post accepted as text only after the upload of the binary
\* was refused.
C32_Witness ==
    /\ script = "bot"
    /\ identity = "company"
    /\ register_status = 200
    /\ upload_status = 403
    /\ media = "NONE"
    /\ calls.publish = 1
    /\ post_status = 201

\* The ledger file was not written out in full by this run's record step.
LedgerWriteFailed ==
    /\ pc = "exited"
    /\ calls.record = 1
    /\ used_articles_file # JsonLedger(used_urls)

\* C33: _save_used_article never propagates an exception: if writing the
\* ledger file fails (at the open or at the dump), the URL stays in the
\* in-memory set and the run ends normally; and at every point of a run
\* whose service was constructed, the in-memory set is a superset of the
\* set loaded from the ledger file at start.
C33_SaveNeverPropagates ==
    (script = "bot" /\ pc # "idle" /\ error # configuration_error) =>
        /\ _load_used_articles(ledger_at_start) \subseteq used_urls
        /\ calls.record > 0 => article_url \in used_urls
        /\ pc \in {"open_ledger", "dump_ledger"} => exit_status = -1
        /\ (pc = "exited" /\ calls.record > 0) => exit_status = 0
        /\ LedgerWriteFailed =>
              /\ used_articles_file \in {ledger_at_start, PartialLedger}
              /\ used_urls = _load_used_articles(ledger_at_start) \cup {article_url}

\* The dump of the ledger failed after the file was truncated, in a run
\* that started with one recorded article; the run ended with status 0.
C33_Witness ==
    /\ script = "bot"
    /\ LedgerWriteFailed
    /\ ledger_at_start = JsonLedger({ArticleA})
    /\ used_articles_file = PartialLedger
    /\ used_urls = {ArticleA, ArticleB}
    /\ exit_status = 0

\* The composer returned a generated text in standard tone.
StandardGenerated == pc = "image" /\ ~args_human /\ generated # Raised

\* s ends, in any letter case and but for trailing whitespace, with the
\* line "Source article here - <url>" as the composer writes it.
EndsWithCitationLine(s, url) ==
    endswith(casefold(rstrip(s)), casefold(citation(url)))

\* s ends, in any letter case and but for trailing whitespace, with
\* "Source article here -", any whitespace or none, and the url.
EndsWithCitationSpaced(s, url) ==
    LET r == casefold(rstrip(s))
        before == rstrip(SubSeq(r, 1, Len(r) - Len(url)))
    IN  /\ endswith(r, casefold(url))
        /\ endswith(before, <<LabelLowered, " ", "-">>)

\* s with one citation line appended at its end.
WithCitationAppended(s, url) ==
    strip(rstrip(s) \o <<NL, NL, NL>> \o citation(url))

\* C34 as stated: in standard tone, a generated text that already ends
\* with "Source article here - <sourceUrl>" in any letter case (optionally
\* followed by whitespace) is returned without a second citation, any
\* other text gets exactly one citation line appended at its end, and the
\* step applied to its own output changes nothing.
C34_CitationOnceLiteral ==
    StandardGenerated =>
        /\ EndsWithCitationLine(generated, article_url) =>
              ComposerOutput = strip(generated)
        /\ ~EndsWithCitationLine(generated, article_url) =>
              ComposerOutput = WithCitationAppended(generated, article_url)
        /\ ensure_citation(ComposerOutput, article_url) = ComposerOutput

\* C34, amended: the text counts as cited when it ends, in any letter
\* case, with "Source article here -", any whitespace or none, and the
\* source URL (optionally followed by whitespace); it is then returned
\* stripped and without a second citation, any other text gets exactly one
\* citation line appended at its end, and the step applied to its own
\* output changes nothing.
C34_CitationOnce ==
    StandardGenerated =>
        /\ EndsWithCitationSpaced(generated, article_url) =>
              ComposerOutput = strip(generated)
        /\ ~EndsWithCitationSpaced(generated, article_url) =>
              /\ ComposerOutput = WithCitationAppended(generated, article_url)
              /\ endswith(ComposerOutput, citation(article_url))
        /\ EndsWithCitationSpaced(ComposerOutput, article_url)
        /\ ensure_citation(ComposerOutput, article_url) = ComposerOutput

\* A text in standard tone that ends with the citation in lower case and
\* with no space after the hyphen: it is returned as it is, stripped.
C34_Witness ==
    /\ StandardGenerated
    /\ generated = <<"Hi", NL, NL, LabelLowered, " ", "-">> \o article_url \o <<NL>>
    /\ ComposerOutput = <<"Hi", NL, NL, LabelLowered, " ", "-">> \o article_url

\* The fact as the final script's fact file holds it.
SavedFact == fact_file.text.fact

\* The summary has been standardized and saved.
Standardized == script = "final" /\ pc = "compose" /\ generated # Raised

\* The number of tokens of s that are in refs.
Count(s, refs) == Cardinality({i \in 1..Len(s) : s[i] \in refs})

\* C35: in daily_knowledge_bot_final.py, for every raw summary, the saved
\* fact (and the fact handed to the composer) holds at least one "[1]" and
\* no numbered marker other than "[1]": every "[n]" of the summary has
\* become a "[1]", and a summary that had none has one "[1]" appended at
\* its end.
C35_MarkersStandardized ==
    Standardized =>
        LET fact_raw == strip(generated)
            others == NumberedRefs \ {"[1]"}
        IN  /\ Count(SavedFact, {"[1]"}) >= 1
            /\ Count(SavedFact, others) = 0
            /\ Count(fact, {"[1]"}) >= 1
            /\ Count(fact, others) = 0
            /\ SavedFact = strip(fact)
            /\ Count(fact_raw, NumberedRefs) > 0 =>
                  /\ Count(SavedFact, {"[1]"}) = Count(fact_raw, NumberedRefs)
                  /\ SelectSeq(SavedFact, LAMBDA t : ~IsSpace(t) /\ t # "[1]")
                        = SelectSeq(fact_raw, LAMBDA t : ~IsSpace(t) /\ t \notin NumberedRefs)
            /\ Count(fact_raw, NumberedRefs) = 0 =>
                  SavedFact = strip(fact_raw \o <<" ", "[1]">>)

\* A summary with three markers, two of them not "[1]" and one after two
\* spaces, has been standardized and saved.
C35_Witness ==
    /\ Standardized
    /\ generated = <<"Fact", "[2]", " ", "and", " ", " ", "[12]", " ", "[1]">>
    /\ SavedFact = <<"Fact", " ", "[1]", " ", "and", " ", "[1]", " ", "[1]">>

====
